---- MODULE Spec2Model ----
(***************************************************************************)
(* Mimoza API (src/main.py, src/schemas.py): the product catalogue         *)
(* handlers (list, create, update, delete, CSV import and export), the     *)
(* order and contact handlers with their outbound notification, and the    *)
(* read-only gallery and post listings, over a document store.             *)
(*                                                                         *)
(* Python values.  A str is a sequence of characters, each character a     *)
(* one-character TLA+ string; a run of characters whose inside no code     *)
(* looks at (an enum literal, a host name) is written as one token.        *)
(* An Optional value is <<>> (None) or <<v>>.  A float is held in tenths   *)
(* (5.0 is 50), which covers the one fractional digit the model uses.      *)
(*                                                                         *)
(* An uploaded file is held as csv.DictReader yields it: a header and the  *)
(* cells of each data row.  The store accepts every document a handler     *)
(* gives it.  Requests are taken one at a time; create-order and           *)
(* create-contact run in steps, so that the wait for the webhook shows.    *)
(***************************************************************************)
EXTENDS Integers, Sequences, FiniteSets, TLC

VARIABLES db, webhook_url, products, orders, contacts, gallery, posts,
          nextId, pc, cur, last

vars == <<db, webhook_url, products, orders, contacts, gallery, posts,
          nextId, pc, cur, last>>

\* Bounds of the model.
MaxIds == 2
MaxRows == 2

-----------------------------------------------------------------------------
(* Python values *)

None == <<>>
Some(v) == <<v>>
Val(o) == o[1]

\* bool(x) of an Optional[str]: None and "" are falsy.
Truthy(o) == o # None /\ Val(o) # <<>>

\* x or y
Or(x, y) == IF Truthy(x) THEN x ELSE y

RECURSIVE Digits(_)
\* The decimal digits of a natural number, as str() writes them.
Digits(n) ==
    LET d == <<"0", "1", "2", "3", "4", "5", "6", "7", "8", "9">>[(n % 10) + 1]
    IN IF n < 10 THEN <<d>> ELSE Append(Digits(n \div 10), d)

DigitVal(c) ==
    CASE c = "0" -> 0 [] c = "1" -> 1 [] c = "2" -> 2 [] c = "3" -> 3
      [] c = "4" -> 4 [] c = "5" -> 5 [] c = "6" -> 6 [] c = "7" -> 7
      [] c = "8" -> 8 [] c = "9" -> 9

IsDigits(s) ==
    /\ Len(s) > 0
    /\ \A i \in 1..Len(s) :
         s[i] \in {"0", "1", "2", "3", "4", "5", "6", "7", "8", "9"}

RECURSIVE DigitsVal(_)
DigitsVal(s) ==
    IF s = <<>> THEN 0
    ELSE 10 * DigitsVal(SubSeq(s, 1, Len(s) - 1)) + DigitVal(s[Len(s)])

\* str(x) of a float, as csv.writer writes a float cell: "5.0", "-1.5".
FloatRepr(t) ==
    LET a == IF t < 0 THEN 0 - t ELSE t
    IN (IF t < 0 THEN <<"-">> ELSE <<>>) \o Digits(a \div 10) \o <<".">>
         \o Digits(a % 10)

\* float(s) of a str: [ok |-> FALSE] is ValueError.  Covers an optional
\* sign, an integer part and at most one fractional digit.
ParseFloat(s) ==
    LET neg  == Len(s) > 0 /\ s[1] = "-"
        body == IF neg THEN SubSeq(s, 2, Len(s)) ELSE s
        dots == {i \in 1..Len(body) : body[i] = "."}
        dot  == IF dots = {} THEN Len(body) + 1 ELSE CHOOSE i \in dots : TRUE
        ip   == SubSeq(body, 1, dot - 1)
        fp   == SubSeq(body, dot + 1, Len(body))
        ok   == /\ Cardinality(dots) <= 1
                /\ IsDigits(ip)
                /\ (dots = {} \/ (Len(fp) = 1 /\ IsDigits(fp)))
        mag  == IF ok THEN 10 * DigitsVal(ip) + DigitsVal(fp) ELSE 0
    IN [ok |-> ok, val |-> IF neg THEN 0 - mag ELSE mag]

-----------------------------------------------------------------------------
(* src/schemas.py *)

CATEGORIES ==
    { <<"sobne biljke">>, <<"trajnica">>, <<"grmovi">>, <<"zivica">>,
      <<"povrtne sadnice">>, <<"zacinsko bilje">>, <<"sezonsko cvijece">>,
      <<"posude i aranzmani">> }

AVAILABILITIES == { <<"na stanju">>, <<"sezonski">>, <<"rasprodano">> }

\* HttpUrl: the value parses as an http(s) URL.
UrlOk(s) == Len(s) >= 2 /\ s[1] \in {"http://", "https://"}

\* str() of a validated HttpUrl: an empty path is written "/".
UrlStr(s) == IF Len(s) = 2 THEN Append(s, "/") ELSE s

\* Fault: the price field without ge=0.
PriceOkNoGe(p) == p # None
\* price: float = Field(..., ge=0)
PriceOk(p) == p # None /\ Val(p) >= 0

CategoryOk(c) == c # None /\ Val(c) \in CATEGORIES

\* Product(**kw): [ok |-> FALSE] is a ValidationError, otherwise doc is
\* model_dump().  kw holds every field as an Optional (None: not given).
ValidateProduct(kw) ==
    LET ok == /\ kw.name # None
              /\ CategoryOk(kw.category)
              /\ PriceOk(kw.price)
              /\ (kw.availability = None \/ Val(kw.availability) \in AVAILABILITIES)
              /\ (kw.image = None \/ UrlOk(Val(kw.image)))
    IN IF ~ok THEN [ok |-> FALSE, doc |-> None]
       ELSE [ok |-> TRUE,
             doc |-> [name |-> Val(kw.name),
                      category |-> Val(kw.category),
                      price |-> Val(kw.price),
                      availability |-> IF kw.availability = None
                                       THEN <<"na stanju">>
                                       ELSE Val(kw.availability),
                      sku |-> kw.sku,
                      care |-> kw.care,
                      image |-> IF kw.image = None THEN None
                                ELSE Some(UrlStr(Val(kw.image)))]]

\* Order(**kw) and Contact(**kw): consent has no default.
ValidateOrder(kw) == kw.full_name # None /\ kw.phone # None /\ kw.consent # None

ValidateContact(kw) == kw.full_name # None /\ kw.message # None /\ kw.consent # None

-----------------------------------------------------------------------------
(* bson.ObjectId, as src/main.py uses it *)

HexChars ==
    {"0", "1", "2", "3", "4", "5", "6", "7", "8", "9",
     "a", "b", "c", "d", "e", "f", "A", "B", "C", "D", "E", "F"}

\* ObjectId.is_valid(s) of a str: 24 hexadecimal characters.
\* Fault: the length tested, the characters not.
IsValidLenOnly(s) == Len(s) = 24
IsValid(s) == Len(s) = 24 /\ \A i \in 1..Len(s) : s[i] \in HexChars

\* str(ObjectId): the n-th identifier the store generates (n < 10).
OidStr(n) == [i \in 1..24 |-> IF i < 24 THEN "0" ELSE Digits(n)[1]]

-----------------------------------------------------------------------------
(* Inputs *)

Kw(n, c, p, a, s, k, i) ==
    [name |-> n, category |-> c, price |-> p, availability |-> a,
     sku |-> s, care |-> k, image |-> i]

\* Request bodies of create-product and update-product, before validation.
ProductInputs ==
    { Kw(Some(<<"a", "b">>), Some(<<"trajnica">>), Some(50), None, None, None, None),
      Kw(Some(<<"A", ".">>), Some(<<"grmovi">>), Some(0), Some(<<"sezonski">>),
         Some(<<"S1">>), Some(<<"a", "\n", "b">>), Some(<<"http://", "x">>)),
      Kw(Some(<<"B">>), Some(<<"kaktus">>), Some(50), None, None, None, None),
      Kw(Some(<<"b">>), Some(<<"trajnica">>), Some(0 - 10), None, None, None, None),
      Kw(None, Some(<<"trajnica">>), Some(50), None, None, None, None) }

\* Path parameters of update-product and delete-product: "abc", 24
\* characters that are not all hexadecimal, and well-formed identifiers,
\* of which OidStr(0) is never generated.
BadIds == { <<"a", "b", "c">>, [i \in 1..24 |-> IF i < 24 THEN "0" ELSE "z"] }
RequestIds == BadIds \cup {OidStr(n) : n \in 0..2}

CategoryParams == {None, Some(<<>>), Some(<<"trajnica">>), Some(<<"grmovi">>)}
AvailabilityParams == {None, Some(<<>>), Some(<<"sezonski">>)}
QParams == {None, Some(<<"a">>), Some(<<".">>)}

\* A CSV data row: one cell per semantic column, "" for an empty cell.
Cells(n, c, p, a, s, k, i) ==
    [n |-> n, c |-> c, p |-> p, a |-> a, s |-> s, k |-> k, i |-> i]

CsvRows ==
    { Cells(<<"a", "b">>, <<"trajnica">>, <<"5", ".", "0">>, <<>>, <<>>, <<>>, <<>>),
      Cells(<<"A", ".">>, <<"grmovi">>, <<>>, <<"sezonski">>, <<"S1">>,
            <<"a", " ", "b">>, <<"http://", "x", "/">>),
      Cells(<<>>, <<"trajnica">>, <<"5">>, <<>>, <<>>, <<>>, <<>>),
      Cells(<<"B">>, <<"kaktus">>, <<"5">>, <<>>, <<>>, <<>>, <<>>),
      Cells(<<"b">>, <<"trajnica">>, <<"-", "1">>, <<>>, <<>>, <<>>, <<>>) }

\* The header row: the English column names or the localized aliases.
Headers == {"en", "hr"}

RECURSIVE SeqsUpTo(_, _)
SeqsUpTo(S, n) ==
    IF n = 0 THEN {<<>>}
    ELSE LET shorter == SeqsUpTo(S, n - 1)
         IN shorter \cup {Append(s, x) : s \in {t \in shorter : Len(t) = n - 1}, x \in S}

CsvFiles == [header : Headers, rows : SeqsUpTo(CsvRows, MaxRows)]

\* csv.DictReader: the row as a dict keyed by the header's column names;
\* get() of a column the header lacks is None.
DictRow(header, cells) ==
    LET en(v) == IF header = "en" THEN Some(v) ELSE None
        hr(v) == IF header = "hr" THEN Some(v) ELSE None
    IN [name |-> en(cells.n), naziv |-> hr(cells.n),
        category |-> en(cells.c), kategorija |-> hr(cells.c),
        price |-> en(cells.p), cijena |-> hr(cells.p),
        availability |-> en(cells.a), dostupnost |-> hr(cells.a),
        sku |-> Some(cells.s),
        care |-> en(cells.k), njega |-> hr(cells.k),
        image |-> en(cells.i), slika |-> hr(cells.i)]

-----------------------------------------------------------------------------
(* The document store, as the handlers use it *)

\* Code points of the characters the model's names are made of.
Ord(c) ==
    CASE c = "\n" -> 10 [] c = " " -> 32 [] c = "." -> 46
      [] c = "A" -> 65 [] c = "B" -> 66 [] c = "a" -> 97 [] c = "b" -> 98

Lower(c) == CASE c = "A" -> "a" [] c = "B" -> "b" [] OTHER -> c

\* One pattern character against one subject character, option "i": "."
\* is the regular expression's any-character-but-newline.
CharMatch(p, c) == IF p = "." THEN c # "\n" ELSE Lower(p) = Lower(c)

\* {"$regex": pat, "$options": "i"}: an unanchored, case-insensitive
\* regular-expression search (patterns of literals and ".").
RegexSearch(pat, s) ==
    \E i \in 1..(Len(s) - Len(pat) + 1) :
        \A j \in 1..Len(pat) : CharMatch(pat[j], s[i + j - 1])

\* String order of the store's sort: by code point, a prefix first.
StrLess(s, t) ==
    \E i \in 1..(Len(t)) :
        /\ \A j \in 1..(i - 1) : j <= Len(s) /\ s[j] = t[j]
        /\ \/ i = Len(s) + 1
           \/ i <= Len(s) /\ Ord(s[i]) < Ord(t[i])

RECURSIVE SortByName(_)
\* cursor.sort("name", 1): ascending by name, equal names in store order.
SortByName(docs) ==
    IF docs = <<>> THEN <<>>
    ELSE LET rest == SortByName(SubSeq(docs, 1, Len(docs) - 1))
             d    == docs[Len(docs)]
             k    == Cardinality({i \in 1..Len(rest) : ~StrLess(d.name, rest[i].name)})
         IN SubSeq(rest, 1, k) \o <<d>> \o SubSeq(rest, k + 1, Len(rest))

Ids(store) == {store[i]._id : i \in 1..Len(store)}

\* insert_one(doc): the store assigns the next ObjectId.
Insert(store, doc, n) ==
    Append(store, [_id |-> OidStr(n)] @@ doc)

\* ObjectId(s): the identifier a well-formed string names (hexadecimal
\* digits are case-insensitive; every identifier here is lower case).
ObjectId(s) == s

-----------------------------------------------------------------------------
(* src/main.py *)

\* ProductOut.from_mongo
from_mongo(doc) ==
    [id |-> doc._id, name |-> doc.name, category |-> doc.category,
     price |-> doc.price, availability |-> doc.availability,
     sku |-> doc.sku, care |-> doc.care,
     image |-> IF Truthy(doc.image) THEN doc.image ELSE None]

\* Fault: the conditions joined by OR.
QueryMatchesAny(d, category, availability, q) ==
    \/ Truthy(category) /\ d.category = Val(category)
    \/ Truthy(availability) /\ d.availability = Val(availability)
    \/ Truthy(q) /\ RegexSearch(Val(q), d.name)
    \/ ~Truthy(category) /\ ~Truthy(availability) /\ ~Truthy(q)
\* The query list_products builds: a falsy parameter adds no condition.
QueryMatches(d, category, availability, q) ==
    /\ Truthy(category) => d.category = Val(category)
    /\ Truthy(availability) => d.availability = Val(availability)
    /\ Truthy(q) => RegexSearch(Val(q), d.name)

\* The request and response of the last handler that returned.
NoRequest ==
    [op |-> "none", status |-> 0, id |-> None, kw |-> None,
     category |-> None, availability |-> None, q |-> None, file |-> None,
     out |-> None, ops |-> 0, before |-> <<>>]

\* HTTPException(status_code=500, detail="Database not configured")
NotConfigured(req) == [req EXCEPT !.status = 500, !.ops = 0]

list_products(category, availability, q) ==
    LET req == [NoRequest EXCEPT !.op = "list_products", !.category = category,
                    !.availability = availability, !.q = q, !.before = products]
        Hit(d) == QueryMatches(d, category, availability, q)
        docs == SortByName(SelectSeq(products, Hit))
    IN /\ last' = IF db = "none" THEN NotConfigured(req)
                  ELSE [req EXCEPT !.status = 200, !.ops = 1,
                            !.out = [i \in 1..Len(docs) |-> from_mongo(docs[i])]]
       /\ UNCHANGED <<db, webhook_url, products, orders, contacts, gallery,
                      posts, nextId, pc, cur>>


\* database.create_document(collection, model): the new identifier as a
\* str, or [ok |-> FALSE] when the store is not configured.
create_document(store, doc) ==
    IF db = "none" THEN [ok |-> FALSE, store |-> store, id |-> None]
    ELSE [ok |-> TRUE, store |-> Insert(store, doc, nextId),
          id |-> Some(OidStr(nextId))]

create_product(kw) ==
    LET req == [NoRequest EXCEPT !.op = "create_product", !.kw = Some(kw),
                    !.before = products]
        v == ValidateProduct(kw)
        r == create_document(products, v.doc)
    IN /\ (v.ok /\ db # "none") => nextId <= MaxIds
       /\ IF ~v.ok
          THEN last' = [req EXCEPT !.status = 422] /\ UNCHANGED <<products, nextId>>
          ELSE IF ~r.ok
          THEN last' = NotConfigured(req) /\ UNCHANGED <<products, nextId>>
          ELSE /\ products' = r.store
               /\ nextId' = nextId + 1
               /\ last' = [req EXCEPT !.status = 200, !.ops = 1, !.out = r.id]
       /\ UNCHANGED <<db, webhook_url, orders, contacts, gallery, posts, pc, cur>>

\* Fault: the update run with upsert=True.
find_one_and_update_upsert(store, oid, doc) ==
    LET hits == {i \in 1..Len(store) : store[i]._id = oid}
        new  == [_id |-> oid] @@ doc
    IN IF hits = {} THEN [store |-> Append(store, new), result |-> Some(new)]
       ELSE LET i == CHOOSE h \in hits : TRUE
            IN [store |-> [store EXCEPT ![i] = new], result |-> Some(new)]
\* find_one_and_update({"_id": oid}, {"$set": doc}, return_document=True):
\* doc holds every field of the model, so the record keeps only its _id.
find_one_and_update(store, oid, doc) ==
    LET hits == {i \in 1..Len(store) : store[i]._id = oid}
    IN IF hits = {} THEN [store |-> store, result |-> None]
       ELSE LET i   == CHOOSE h \in hits : TRUE
                new == [_id |-> oid] @@ doc
            IN [store |-> [store EXCEPT ![i] = new], result |-> Some(new)]

update_product(product_id, kw) ==
    LET req == [NoRequest EXCEPT !.op = "update_product", !.id = Some(product_id),
                    !.kw = Some(kw), !.before = products]
        v == ValidateProduct(kw)
        r == find_one_and_update(products, ObjectId(product_id), v.doc)
    IN /\ IF ~v.ok
          THEN last' = [req EXCEPT !.status = 422] /\ UNCHANGED products
          ELSE IF db = "none"
          THEN last' = NotConfigured(req) /\ UNCHANGED products
          ELSE IF ~IsValid(product_id)
          THEN last' = [req EXCEPT !.status = 400] /\ UNCHANGED products
          ELSE /\ products' = r.store
               /\ last' = IF r.result = None
                          THEN [req EXCEPT !.status = 404, !.ops = 1]
                          ELSE [req EXCEPT !.status = 200, !.ops = 1,
                                    !.out = Some(from_mongo(Val(r.result)))]
       /\ UNCHANGED <<db, webhook_url, orders, contacts, gallery, posts,
                      nextId, pc, cur>>

\* delete_one({"_id": oid})
delete_one(store, oid) ==
    LET Keep(d) == d._id # oid
        kept == SelectSeq(store, Keep)
    IN [store |-> kept, deleted_count |-> Len(store) - Len(kept)]

\* Fault: the id tested before the store.
delete_product_id_first(product_id) ==
    LET req == [NoRequest EXCEPT !.op = "delete_product", !.id = Some(product_id),
                    !.before = products]
        r == delete_one(products, ObjectId(product_id))
    IN /\ IF ~IsValid(product_id)
          THEN last' = [req EXCEPT !.status = 400] /\ UNCHANGED products
          ELSE IF db = "none"
          THEN last' = NotConfigured(req) /\ UNCHANGED products
          ELSE /\ products' = r.store
               /\ last' = IF r.deleted_count = 0
                          THEN [req EXCEPT !.status = 404, !.ops = 1]
                          ELSE [req EXCEPT !.status = 200, !.ops = 1]
       /\ UNCHANGED <<db, webhook_url, orders, contacts, gallery, posts,
                      nextId, pc, cur>>
delete_product(product_id) ==
    LET req == [NoRequest EXCEPT !.op = "delete_product", !.id = Some(product_id),
                    !.before = products]
        r == delete_one(products, ObjectId(product_id))
    IN /\ IF db = "none"
          THEN last' = NotConfigured(req) /\ UNCHANGED products
          ELSE IF ~IsValid(product_id)
          THEN last' = [req EXCEPT !.status = 400] /\ UNCHANGED products
          ELSE /\ products' = r.store
               /\ last' = IF r.deleted_count = 0
                          THEN [req EXCEPT !.status = 404, !.ops = 1]
                          ELSE [req EXCEPT !.status = 200, !.ops = 1]
       /\ UNCHANGED <<db, webhook_url, orders, contacts, gallery, posts,
                      nextId, pc, cur>>


\* The keyword arguments import_products_csv builds from one row;
\* [ok |-> FALSE] when float() raises ValueError.
RowKw(row) ==
    LET p == Or(row.price, row.cijena)
        \* float(p or 0)
        f == IF Truthy(p) THEN ParseFloat(Val(p)) ELSE [ok |-> TRUE, val |-> 0]
    IN [ok |-> f.ok,
        kw |-> Kw(Or(row.name, row.naziv),
                  Or(row.category, row.kategorija),
                  Some(f.val),
                  Or(Or(row.availability, row.dostupnost), Some(<<"na stanju">>)),
                  row.sku,
                  Or(row.care, row.njega),
                  Or(row.image, row.slika))]

\* One pass of the loop over the rows: a row that raises is skipped.
ImportRow(header, cells, acc) ==
    LET k == RowKw(DictRow(header, cells))
        v == ValidateProduct(k.kw)
    IN IF ~k.ok \/ ~v.ok THEN acc
       ELSE [acc EXCEPT !.store = Insert(acc.store, v.doc, acc.n),
                        !.n = acc.n + 1, !.inserted = acc.inserted + 1]

RECURSIVE ImportRows(_, _, _, _)
\* The rows in file order, onto store, the next identifier being n.
ImportRows(header, rows, store, n) ==
    IF rows = <<>>
    THEN [store |-> store, n |-> n, inserted |-> 0]
    ELSE ImportRow(header, rows[Len(rows)],
                   ImportRows(header, SubSeq(rows, 1, Len(rows) - 1), store, n))

import_products_csv(file) ==
    LET req == [NoRequest EXCEPT !.op = "import_products_csv", !.file = Some(file),
                    !.before = products]
        r == ImportRows(file.header, file.rows, products, nextId)
    IN /\ db # "none" => nextId + Len(file.rows) <= MaxIds + 1
       /\ IF db = "none"
          THEN last' = NotConfigured(req) /\ UNCHANGED <<products, nextId>>
          ELSE /\ products' = r.store
               /\ nextId' = r.n
               /\ last' = [req EXCEPT !.status = 200, !.ops = r.inserted,
                               !.out = Some(r.inserted)]
       /\ UNCHANGED <<db, webhook_url, orders, contacts, gallery, posts, pc, cur>>

\* care.replace("\n", " ")
ReplaceNewlines(s) == [i \in 1..Len(s) |-> IF s[i] = "\n" THEN " " ELSE s[i]]

\* The row export_products_csv writes for one document; csv.writer
\* writes None as the empty string.
ExportRow(d) ==
    Cells(d.name, d.category, FloatRepr(d.price), d.availability,
          IF d.sku = None THEN <<>> ELSE Val(d.sku),
          ReplaceNewlines(IF Truthy(d.care) THEN Val(d.care) ELSE <<>>),
          IF d.image = None THEN <<>> ELSE Val(d.image))

\* The CSV text of a collection: the English header, then the rows in
\* store order.
ExportCsv(store) ==
    [header |-> "en", rows |-> [i \in 1..Len(store) |-> ExportRow(store[i])]]

export_products_csv ==
    LET req == [NoRequest EXCEPT !.op = "export_products_csv", !.before = products]
    IN /\ last' = IF db = "none" THEN NotConfigured(req)
                  ELSE [req EXCEPT !.status = 200, !.ops = 1,
                            !.out = Some(ExportCsv(products))]
       /\ UNCHANGED <<db, webhook_url, products, orders, contacts, gallery,
                      posts, nextId, pc, cur>>


OrderInputs ==
    { [full_name |-> Some(<<"Ana">>), phone |-> Some(<<"091">>), consent |-> Some(TRUE)],
      [full_name |-> Some(<<"Ana">>), phone |-> Some(<<"091">>), consent |-> None] }

ContactInputs ==
    { [full_name |-> Some(<<"Iva">>), message |-> Some(<<"Upit">>), consent |-> Some(TRUE)],
      [full_name |-> Some(<<"Iva">>), message |-> Some(<<"Upit">>), consent |-> None] }

\* The handler of create-order or create-contact in flight: none, or the
\* operation, the identifier create_document returned and the number of
\* requests.post calls made so far.
Idle == [op |-> "none", id |-> None, posts |-> 0]

\* create_order up to the return of create_document.
create_order(kw) ==
    LET req == [NoRequest EXCEPT !.op = "create_order", !.kw = Some(kw),
                    !.before = products]
        r == create_document(orders, kw)
    IN /\ (ValidateOrder(kw) /\ db # "none") => nextId <= MaxIds
       /\ IF ~ValidateOrder(kw)
          THEN last' = [req EXCEPT !.status = 422] /\ UNCHANGED <<orders, nextId, pc, cur>>
          ELSE IF ~r.ok
          THEN last' = NotConfigured(req) /\ UNCHANGED <<orders, nextId, pc, cur>>
          ELSE /\ orders' = r.store
               /\ nextId' = nextId + 1
               /\ pc' = "notify"
               /\ cur' = [op |-> "create_order", id |-> r.id, posts |-> 0]
               /\ UNCHANGED last
       /\ UNCHANGED <<db, webhook_url, products, contacts, gallery, posts>>

\* create_contact up to the return of create_document.
create_contact(kw) ==
    LET req == [NoRequest EXCEPT !.op = "create_contact", !.kw = Some(kw),
                    !.before = products]
        r == create_document(contacts, kw)
    IN /\ (ValidateContact(kw) /\ db # "none") => nextId <= MaxIds
       /\ IF ~ValidateContact(kw)
          THEN last' = [req EXCEPT !.status = 422] /\ UNCHANGED <<contacts, nextId, pc, cur>>
          ELSE IF ~r.ok
          THEN last' = NotConfigured(req) /\ UNCHANGED <<contacts, nextId, pc, cur>>
          ELSE /\ contacts' = r.store
               /\ nextId' = nextId + 1
               /\ pc' = "notify"
               /\ cur' = [op |-> "create_contact", id |-> r.id, posts |-> 0]
               /\ UNCHANGED last
       /\ UNCHANGED <<db, webhook_url, products, orders, gallery, posts>>

\* if webhook_url: false, the try block does nothing.
notify_skip ==
    /\ pc = "notify"
    /\ ~Truthy(webhook_url)
    /\ pc' = "respond"
    /\ UNCHANGED <<db, webhook_url, products, orders, contacts, gallery, posts,
                   nextId, cur, last>>

\* requests.post(webhook_url, json=...): the call raises (the body does
\* not serialise, the connection fails) and except Exception swallows
\* it, or the request is sent and the call waits for the answer; no
\* timeout is passed.
notify_post ==
    /\ pc = "notify"
    /\ Truthy(webhook_url)
    /\ cur' = [cur EXCEPT !.posts = cur.posts + 1]
    /\ pc' \in {"respond", "waiting"}
    /\ UNCHANGED <<db, webhook_url, products, orders, contacts, gallery, posts,
                   nextId, last>>

\* The webhook's server answers (any status), or the connection breaks.
webhook_answers ==
    /\ pc = "waiting"
    /\ pc' = "respond"
    /\ UNCHANGED <<db, webhook_url, products, orders, contacts, gallery, posts,
                   nextId, cur, last>>

\* return {"id": oid}
respond ==
    /\ pc = "respond"
    /\ last' = [NoRequest EXCEPT !.op = cur.op, !.status = 200, !.ops = 1,
                    !.out = cur.id, !.before = products]
    /\ pc' = "idle"
    /\ cur' = Idle
    /\ UNCHANGED <<db, webhook_url, products, orders, contacts, gallery, posts,
                   nextId>>


\* Identifiers of the documents provisioned outside the API.
SiteId(c) == [i \in 1..24 |-> IF i < 24 THEN "0" ELSE c]

\* The gallery collection: documents are provisioned out of band, so a
\* key may be absent, or present and null as Gallery.model_dump() writes
\* an alt that was not given.  A document is a function of its keys.
GalleryDocs ==
    << [_id |-> SiteId("a"), title |-> Some(<<"Ruze">>), category |-> Some(<<"buketi">>),
        image |-> Some(<<"http://", "x", "/1">>), photographer |-> None,
        alt |-> Some(<<"Crvene ruze">>)],
       [_id |-> SiteId("b"), title |-> Some(<<"Vrt">>), category |-> Some(<<"krajobraz">>),
        image |-> Some(<<"http://", "x", "/2">>)],
       [_id |-> SiteId("c"), title |-> Some(<<"Staklenik">>),
        category |-> Some(<<"staklenik">>), image |-> Some(<<"http://", "x", "/3">>),
        photographer |-> None, alt |-> None],
       [_id |-> SiteId("d"), category |-> Some(<<"buketi">>),
        image |-> Some(<<"http://", "x", "/4">>)] >>

\* The post collection, in ascending _id order.
PostDocs ==
    << [_id |-> SiteId("a"), title |-> <<"Sadnja">>, published |-> TRUE],
       [_id |-> SiteId("b"), title |-> <<"Skica">>, published |-> FALSE],
       [_id |-> SiteId("c"), title |-> <<"Zalijevanje">>, published |-> TRUE] >>

\* d.get(key, default)
Get(d, key, default) == IF key \in DOMAIN d THEN d[key] ELSE default

\* database.get_documents(collection): every document of the collection.
get_documents(store) == store

\* The loop body of list_gallery: d["id"] = str(d.pop("_id")), then
\* d.setdefault("alt", d.get("title", "Fotografija")), which leaves a key
\* that is present alone.
NormalizeGallery(d) ==
    [k \in (DOMAIN d \ {"_id"}) \cup {"id", "alt"} |->
        IF k = "id" THEN IF "_id" \in DOMAIN d THEN Some(d["_id"]) ELSE None
        ELSE IF k = "alt"
        THEN IF "alt" \in DOMAIN d THEN d["alt"]
             ELSE Get(d, "title", Some(<<"Fotografija">>))
        ELSE d[k]]

list_gallery ==
    LET req == [NoRequest EXCEPT !.op = "list_gallery", !.before = products]
        docs == get_documents(gallery)
    IN /\ last' = IF db = "none" THEN NotConfigured(req)
                  ELSE [req EXCEPT !.status = 200, !.ops = 1,
                            !.out = [i \in 1..Len(docs) |-> NormalizeGallery(docs[i])]]
       /\ UNCHANGED <<db, webhook_url, products, orders, contacts, gallery,
                      posts, nextId, pc, cur>>

Reverse(s) == [i \in 1..Len(s) |-> s[Len(s) + 1 - i]]

\* d["id"] = str(d.pop("_id"))
PostOut(d) ==
    [k \in (DOMAIN d \ {"_id"}) \cup {"id"} |-> IF k = "id" THEN d["_id"] ELSE d[k]]

list_posts ==
    LET req == [NoRequest EXCEPT !.op = "list_posts", !.before = products]
        Published(d) == d.published = TRUE
        docs == Reverse(SelectSeq(posts, Published))
    IN /\ last' = IF db = "none" THEN NotConfigured(req)
                  ELSE [req EXCEPT !.status = 200, !.ops = 1,
                            !.out = [i \in 1..Len(docs) |-> PostOut(docs[i])]]
       /\ UNCHANGED <<db, webhook_url, products, orders, contacts, gallery,
                      posts, nextId, pc, cur>>

-----------------------------------------------------------------------------
(* The state machine *)

\* The process after start-up: database.db is None or a connected
\* database, WEBHOOK_URL is unset or set, and no handler has run.
Init ==
    /\ db \in {"none", "configured"}
    /\ webhook_url \in {None, Some(<<"http://", "hook", "/">>)}
    /\ products = <<>>
    /\ orders = <<>>
    /\ contacts = <<>>
    /\ gallery = IF db = "none" THEN <<>> ELSE GalleryDocs
    /\ posts = IF db = "none" THEN <<>> ELSE PostDocs
    /\ nextId = 1
    /\ pc = "idle"
    /\ cur = Idle
    /\ last = NoRequest

\* One request at a time: the handlers share nothing but the store, whose
\* operations are atomic, so a request is taken up when none is in flight.
ListProducts ==
    /\ pc = "idle"
    /\ \E c \in CategoryParams, a \in AvailabilityParams, q \in QParams :
          list_products(c, a, q)

CreateProduct == pc = "idle" /\ \E kw \in ProductInputs : create_product(kw)

UpdateProduct ==
    /\ pc = "idle"
    /\ \E id \in RequestIds, kw \in ProductInputs : update_product(id, kw)

DeleteProduct == pc = "idle" /\ \E id \in RequestIds : delete_product(id)

ImportProductsCsv == pc = "idle" /\ \E f \in CsvFiles : import_products_csv(f)

ExportProductsCsv == pc = "idle" /\ export_products_csv

CreateOrder == pc = "idle" /\ \E kw \in OrderInputs : create_order(kw)

CreateContact == pc = "idle" /\ \E kw \in ContactInputs : create_contact(kw)

ListGallery == pc = "idle" /\ list_gallery

ListPosts == pc = "idle" /\ list_posts

Next ==
    \/ ListProducts
    \/ CreateProduct
    \/ UpdateProduct
    \/ DeleteProduct
    \/ ImportProductsCsv
    \/ ExportProductsCsv
    \/ CreateOrder
    \/ CreateContact
    \/ notify_skip
    \/ notify_post
    \/ webhook_answers
    \/ respond
    \/ ListGallery
    \/ ListPosts

Spec == Init /\ [][Next]_vars

\* Each handler runs on a worker thread that is scheduled until it
\* returns; nothing obliges the webhook's server to answer.
FairSpec ==
    /\ Spec
    /\ WF_vars(notify_skip)
    /\ WF_vars(notify_post)
    /\ WF_vars(respond)

-----------------------------------------------------------------------------
(* Properties *)

ProductOps == {"create_product", "update_product"}

\* The body of the last request is one the handler was called with: the
\* framework builds the handler's model argument before the call and
\* answers 422 itself when that fails.
HandlerRan ==
    CASE last.op \in ProductOps -> ValidateProduct(Val(last.kw)).ok
      [] last.op = "create_order" -> ValidateOrder(Val(last.kw))
      [] last.op = "create_contact" -> ValidateContact(Val(last.kw))
      [] OTHER -> last.op # "none"

\* A body whose category is outside the enum or whose price is negative.
BadBody(kw) ==
    \/ kw.category # None /\ Val(kw.category) \notin CATEGORIES
    \/ kw.price # None /\ Val(kw.price) < 0

\* A CSV row whose category is outside the enum or whose price is negative.
BadRow(cells) ==
    \/ cells.c \notin CATEGORIES
    \/ ParseFloat(cells.p).ok /\ ParseFloat(cells.p).val < 0

\* C1: every product in the store has a category of the 8, an availability
\* of the 3 and a price >= 0; a create or update whose category is outside
\* the set or whose price is negative is answered with a validation error
\* and leaves the store as it was, and an import adds no record for such a
\* row.
C1_StoredProductsValid ==
    /\ \A i \in 1..Len(products) :
         /\ products[i].category \in CATEGORIES
         /\ products[i].availability \in AVAILABILITIES
         /\ products[i].price >= 0
    /\ (last.op \in ProductOps /\ BadBody(Val(last.kw))) =>
         last.status = 422 /\ last.ops = 0 /\ products = last.before
    /\ (last.op = "import_products_csv" /\ last.status = 200) =>
         LET rows == Val(last.file).rows
             good == {i \in 1..Len(rows) : ~BadRow(rows[i])}
         IN /\ Len(products) - Len(last.before) <= Cardinality(good)
            /\ SubSeq(products, 1, Len(last.before)) = last.before

\* C1's case: a stored catalogue, and an update with a negative price
\* that was rejected.
C1_Witness ==
    /\ Len(products) = 2
    /\ last.op = "update_product"
    /\ Val(Val(last.kw).price) < 0
    /\ last.status = 422


\* The listing answered 200 with exactly the stored records that Keep
\* admits, each once, as ProductOut values.
ListsExactly(Keep(_)) ==
    LET out  == last.out
        kept == {i \in 1..Len(last.before) : Keep(last.before[i])}
    IN /\ last.status = 200
       /\ Len(out) = Cardinality(kept)
       /\ {out[i] : i \in 1..Len(out)} = {from_mongo(last.before[i]) : i \in kept}

\* The listing is in ascending order of name.
ListSorted ==
    \A i, j \in 1..Len(last.out) :
        i < j => ~StrLess(last.out[j].name, last.out[i].name)

\* A listing by category and availability alone, over a configured store.
FilterListing ==
    last.op = "list_products" /\ db = "configured" /\ last.q = None

\* C5 as stated: the listing holds exactly the records equal to every
\* filter value that was provided, an absent filter excludes nothing, and
\* the sequence is in ascending order of name; no match is an empty
\* sequence with status 200.
C5_ProvidedFiltersExact ==
    FilterListing =>
        LET Keep(d) ==
                /\ last.category # None => d.category = Val(last.category)
                /\ last.availability # None => d.availability = Val(last.availability)
        IN ListsExactly(Keep) /\ ListSorted

\* C5 amended: a filter that is absent or the empty string excludes
\* nothing; every other filter value must be equalled.
C5_NonEmptyFiltersExact ==
    FilterListing =>
        LET Keep(d) ==
                /\ Truthy(last.category) => d.category = Val(last.category)
                /\ Truthy(last.availability) =>
                       d.availability = Val(last.availability)
        IN ListsExactly(Keep) /\ ListSorted

\* C5's case: both filters given, two records stored, one of them listed.
C5_Witness ==
    /\ FilterListing
    /\ Truthy(last.category) /\ Truthy(last.availability)
    /\ Len(last.before) = 2
    /\ Len(last.out) = 1

BadRequestSignals == {400, 422}

\* An update or delete whose path parameter is not a well-formed id.
MalformedIdCall ==
    last.op \in {"update_product", "delete_product"} /\ Val(last.id) \in BadIds

\* C6 as stated: an update or delete with a malformed id is answered with
\* a bad-request signal, without a store operation and with the product
\* collection unchanged.
C6_MalformedIdBadRequest ==
    MalformedIdCall =>
        /\ last.status \in BadRequestSignals
        /\ last.ops = 0
        /\ products = last.before

\* C6 amended: the same, when the store is configured.
C6_MalformedIdBadRequestConfigured ==
    (MalformedIdCall /\ db = "configured") =>
        /\ last.status \in BadRequestSignals
        /\ last.ops = 0
        /\ products = last.before

\* C6's case: an update with id "abc" and a valid body, over a catalogue,
\* answered 400.
C6_Witness ==
    /\ last.op = "update_product"
    /\ Val(last.id) = <<"a", "b", "c">>
    /\ HandlerRan
    /\ Len(products) = 2
    /\ last.status = 400

\* An update or delete the handler was called with, whose id is well
\* formed and names no stored record.
UnknownIdCall ==
    /\ last.op \in {"update_product", "delete_product"}
    /\ HandlerRan
    /\ Val(last.id) \notin BadIds
    /\ Val(last.id) \notin Ids(last.before)

WellFormedRow(cells) ==
    /\ cells.n # <<>>
    /\ cells.c \in CATEGORIES
    /\ cells.p = <<>> \/ (ParseFloat(cells.p).ok /\ ParseFloat(cells.p).val >= 0)
    /\ cells.a = <<>> \/ cells.a \in AVAILABILITIES
    /\ cells.i = <<>> \/ UrlOk(cells.i)

\* C2: an import over a configured store answers {inserted: M}, M the
\* number of well-formed rows of the file, and appends exactly one record
\* per well-formed row, in file order, to the records held before.
C2_ImportCountsWellFormed ==
    (last.op = "import_products_csv" /\ db = "configured") =>
        LET wf == SelectSeq(Val(last.file).rows, WellFormedRow)
            n0 == Len(last.before)
        IN /\ last.status = 200
           /\ last.out = Some(Len(wf))
           /\ Len(products) = n0 + Len(wf)
           /\ SubSeq(products, 1, n0) = last.before
           /\ \A k \in 1..Len(wf) :
                /\ products[n0 + k].name = wf[k].n
                /\ products[n0 + k].category = wf[k].c

\* The fields of a stored product that the claim compares.
Fields(d) ==
    [name |-> d.name, category |-> d.category, price |-> d.price,
     availability |-> d.availability, sku |-> d.sku, care |-> d.care,
     image |-> d.image]

\* C3: importing the export of the catalogue into an empty collection
\* gives as many records, each with the field values of the record it was
\* exported from.
C3_ExportImportRoundTrip ==
    db = "configured" =>
        LET f == ExportCsv(products)
            r == ImportRows(f.header, f.rows, <<>>, 1)
        IN /\ r.inserted = Len(products)
           /\ Len(r.store) = Len(products)
           /\ \A i \in 1..Len(products) :
                i <= Len(r.store) => Fields(r.store[i]) = Fields(products[i])

\* s contains sub as a literal substring, compared case-insensitively.
ContainsIgnoreCase(s, sub) ==
    \E i \in 1..(Len(s) - Len(sub) + 1) :
        \A j \in 1..Len(sub) : Lower(sub[j]) = Lower(s[i + j - 1])

\* C4: a listing with only a non-empty q holds exactly the records whose
\* name contains q as a literal substring, case-insensitively.
C4_LiteralSubstring ==
    (/\ last.op = "list_products"
     /\ db = "configured"
     /\ last.category = None /\ last.availability = None
     /\ Truthy(last.q)) =>
        LET Keep(d) == ContainsIgnoreCase(d.name, Val(last.q))
        IN ListsExactly(Keep)

\* C8: once create_document has persisted the order or contact, the
\* handler eventually returns {"id": ...}, whatever the notification does.
C8_EventuallyResponds == (pc # "idle") ~> (pc = "idle")

\* A gallery document without an alt value: the key is absent or null.
LacksAlt(d) == "alt" \notin DOMAIN d \/ d["alt"] = None

\* C10: list-gallery returns each record with its id as a string; a record
\* that lacks an alt value is returned with alt equal to its title, and a
\* record that has one keeps it.
C10_AltDefaultsToTitle ==
    (last.op = "list_gallery" /\ last.status = 200) =>
        /\ Len(last.out) = Len(gallery)
        /\ \A i \in 1..Len(gallery) :
             LET d == gallery[i]
                 o == last.out[i]
             IN /\ o["id"] = Some(d["_id"])
                /\ (LacksAlt(d) /\ "title" \in DOMAIN d) => o["alt"] = d["title"]
                /\ ~LacksAlt(d) => o["alt"] = d["alt"]

====
